---- MODULE Spec2Model ----
(***************************************************************************)
(* Model of the helpers of neuralEntropyClosures:                          *)
(*   src/src/utils.py                   load_data, kl_divergence_loss,     *)
(*                                      finiteDiff, writeConfigFile        *)
(*   src/experimental/errorAnalysis.py  relDifferenceScalar, relDifference *)
(*   src/python/neuralClosures/configModel.py  initNeuralClosure           *)
(*                                                                         *)
(* Every function is modelled as an operator that computes what the code   *)
(* computes, on tensors that carry their shape.  A call is one action of   *)
(* the state machine: it draws its arguments from bounded sets and stores  *)
(* the value returned (or the error raised) in `ret`.  `disk` holds the    *)
(* folders and files writeConfigFile works on, and `calls` counts the      *)
(* calls of writeConfigFile on each folder.                                *)
(***************************************************************************)
EXTENDS Integers, Sequences, FiniteSets, Bags, TLC

VARIABLES pc, op, closure, args, ret, disk, calls

vars == <<pc, op, closure, args, ret, disk, calls>>

(***************************************************************************)
(* Bounds of the model.                                                    *)
(***************************************************************************)
\* largest batch size ns
MaxNs == 2
\* largest number N of reduced multipliers (the basis degree)
MaxN == 2
\* largest number of rows (samples) and columns (features) of the arrays the
\* error metrics are applied to
MaxSamples == 2
MaxFeatures == 3
\* largest input_dim and largest number of data rows of a file load_data reads
MaxInputDim == 2
MaxRows == 2
\* largest modelNumber and largest maxDegree_N passed to initNeuralClosure
MaxModelNumber == 9
MaxDegree == 3
\* largest number of points of the arrays passed to finiteDiff
MaxPoints == 3
\* largest number of calls of writeConfigFile on one folder
MaxCalls == 3

(***************************************************************************)
(* Exact real arithmetic.                                                  *)
(*                                                                         *)
(* The loss is built from integers with +, *, exp and log.  A finite real  *)
(* is kept exactly, as a polynomial with integer coefficients in the       *)
(* symbols exp(v) and log(s): a function from monomials to non-zero        *)
(* coefficients, a monomial being [e |-> v, f |-> bag of s] and standing   *)
(* for exp(v) * product of log(s) for s in f.  exp(a) * exp(b) is          *)
(* exp(a + b), and log(exp(v)) is v.  Rounding of finite results is not    *)
(* modelled; overflow of exp to infinity is (see FExp).                    *)
(***************************************************************************)
Zero == [m \in {} |-> 0]

UnitMonomial == [e |-> Zero, f |-> EmptyBag]

Const(n) == IF n = 0 THEN Zero ELSE (UnitMonomial :> n)

One == Const(1)

Coef(a, m) == IF m \in DOMAIN a THEN a[m] ELSE 0

Add(a, b) ==
    LET D == DOMAIN a \cup DOMAIN b
        s == [m \in D |-> Coef(a, m) + Coef(b, m)]
    IN  [m \in {x \in D : s[x] # 0} |-> s[m]]

Scale(n, a) == IF n = 0 THEN Zero ELSE [m \in DOMAIN a |-> n * a[m]]

Neg(a) == Scale(-1, a)

RECURSIVE SumFcn(_)
SumFcn(f) ==
    IF DOMAIN f = {} THEN 0
    ELSE LET x == CHOOSE y \in DOMAIN f : TRUE
         IN  f[x] + SumFcn([y \in DOMAIN f \ {x} |-> f[y]])

MonMul(m1, m2) == [e |-> Add(m1.e, m2.e), f |-> m1.f (+) m2.f]

Mul(a, b) ==
    LET P == (DOMAIN a) \X (DOMAIN b)
        D == {MonMul(p[1], p[2]) : p \in P}
        s == [m \in D |->
                SumFcn([p \in {q \in P : MonMul(q[1], q[2]) = m} |-> a[p[1]] * b[p[2]]])]
    IN  [m \in {x \in D : s[x] # 0} |-> s[m]]

ExpE(a) == ([e |-> a, f |-> EmptyBag] :> 1)

LogSym(s) == ([e |-> Zero, f |-> SetToBag({s})] :> 1)

\* log(exp(v)) = v; any other argument stays a symbol
LogE(a) ==
    IF /\ Cardinality(DOMAIN a) = 1
       /\ \A m \in DOMAIN a : a[m] = 1 /\ m.f = EmptyBag
    THEN (CHOOSE m \in DOMAIN a : TRUE).e
    ELSE LogSym(a)

IsConst(a) == DOMAIN a \subseteq {UnitMonomial}

ConstOf(a) == Coef(a, UnitMonomial)

(***************************************************************************)
(* Integer bounds of a finite value, used where the code's result depends  *)
(* on a magnitude (overflow of exp, the sign of a factor of infinity, the  *)
(* clip).  A sum s = sum_k w_k * exp(x_k) with weights w_k >= 1 has        *)
(*   max_k x_k <= log(s) <= max_k x_k + LogCeil(sum_k w_k).                *)
(***************************************************************************)
RECURSIVE MaxOf(_)
MaxOf(S) ==
    LET x == CHOOSE y \in S : TRUE
    IN  IF S = {x} THEN x
        ELSE LET r == MaxOf(S \ {x}) IN IF x > r THEN x ELSE r

\* least j with 2^j >= w (so e^j >= w)
LogCeil(w) == CHOOSE j \in 0..w : 2^j >= w /\ (j = 0 \/ 2^(j-1) < w)

IsExpSum(s) ==
    /\ s # Zero
    /\ \A m \in DOMAIN s : m.f = EmptyBag /\ IsConst(m.e) /\ s[m] > 0

LogLo(s) == MaxOf({ConstOf(m.e) : m \in DOMAIN s})

LogHi(s) == LogLo(s) + LogCeil(SumFcn(s))

\* a + sum_j c_j * log(s_j)
IsLin(a) ==
    \A m \in DOMAIN a :
        /\ m.e = Zero
        /\ \/ m.f = EmptyBag
           \/ \E s \in BagToSet(m.f) : m.f = SetToBag({s}) /\ IsExpSum(s)

LinSym(m) == CHOOSE s \in BagToSet(m.f) : TRUE

Lo(a) ==
    SumFcn([m \in DOMAIN a |->
              IF m.f = EmptyBag THEN a[m]
              ELSE IF a[m] > 0 THEN a[m] * LogLo(LinSym(m))
              ELSE a[m] * LogHi(LinSym(m))])

Hi(a) ==
    SumFcn([m \in DOMAIN a |->
              IF m.f = EmptyBag THEN a[m]
              ELSE IF a[m] > 0 THEN a[m] * LogHi(LinSym(m))
              ELSE a[m] * LogLo(LinSym(m))])

\* the sign of a finite value: exact for zero, for constants and for sums of
\* one sign; for a + sum c_j log(s_j) the sign of the midpoint of its bounds
Sgn(a) ==
    IF a = Zero THEN 0
    ELSE IF IsLin(a) THEN (IF Lo(a) + Hi(a) >= 0 THEN 1 ELSE -1)
    ELSE IF \A m \in DOMAIN a : a[m] > 0 THEN 1
    ELSE IF \A m \in DOMAIN a : a[m] < 0 THEN -1
    ELSE 0

(***************************************************************************)
(* Floating-point values: a finite value, +/-infinity (v holds the sign)   *)
(* or NaN, with the IEEE-754 rules for the operations the code applies.    *)
(***************************************************************************)
Fin(a) == [k |-> "fin", v |-> a]

NaN == [k |-> "nan", v |-> Zero]

PosInf == [k |-> "inf", v |-> Const(1)]

NegInf == [k |-> "inf", v |-> Const(-1)]

Num(n) == Fin(Const(n))

IsFinite(x) == x.k = "fin"

\* sign of a value that is not NaN
FSgn(x) == IF x.k = "inf" THEN ConstOf(x.v) ELSE Sgn(x.v)

FNeg(x) == IF x.k = "fin" THEN Fin(Neg(x.v))
           ELSE IF x.k = "inf" THEN [k |-> "inf", v |-> Neg(x.v)]
           ELSE NaN

FAdd(x, y) ==
    IF x.k = "nan" \/ y.k = "nan" THEN NaN
    ELSE IF x.k = "inf" /\ y.k = "inf" THEN (IF x.v = y.v THEN x ELSE NaN)
    ELSE IF x.k = "inf" THEN x
    ELSE IF y.k = "inf" THEN y
    ELSE Fin(Add(x.v, y.v))

FSub(x, y) == FAdd(x, FNeg(y))

FMul(x, y) ==
    IF x.k = "nan" \/ y.k = "nan" THEN NaN
    ELSE IF x.k = "inf" \/ y.k = "inf"
         THEN LET s == FSgn(x) * FSgn(y)
              IN  IF s = 0 THEN NaN ELSE IF s > 0 THEN PosInf ELSE NegInf
    ELSE Fin(Mul(x.v, y.v))

\* the largest integer whose exponential is finite in float64, the widest type
\* the loss is evaluated in (float32 overflows earlier, above 88)
ExpMax == 709

FExp(x) ==
    IF x.k = "nan" THEN NaN
    ELSE IF x.k = "inf" THEN (IF ConstOf(x.v) > 0 THEN PosInf ELSE Fin(Zero))
    ELSE IF IsLin(x.v) /\ Lo(x.v) > ExpMax THEN PosInf
    ELSE Fin(ExpE(x.v))

FLog(x) ==
    IF x.k = "nan" THEN NaN
    ELSE IF x.k = "inf" THEN (IF ConstOf(x.v) > 0 THEN PosInf ELSE NaN)
    ELSE IF x.v = Zero THEN NegInf
    ELSE IF Sgn(x.v) < 0 THEN NaN
    ELSE Fin(LogE(x.v))

(***************************************************************************)
(* Tensors: a shape and a value for every index (indices from 1; the axes  *)
(* passed to the operations are the code's, from 0).                       *)
(***************************************************************************)
RECURSIVE Indices(_)
Indices(shape) ==
    IF shape = <<>> THEN {<<>>}
    ELSE {<<i>> \o r : i \in 1..Head(shape), r \in Indices(Tail(shape))}

Rank(t) == Len(t.shape)

\* the outcome of an operation: the value returned, or the error raised
Ok(t) == [err |-> "", val |-> t]

NoTensor == [shape |-> <<0>>, d |-> <<>>]

Err(e) == [err |-> e, val |-> NoTensor]

\* tf.math.exp, tf.math.log, unary minus, a - b and tf.math.multiply, entry by entry
tf_exp(t) == [shape |-> t.shape, d |-> [idx \in DOMAIN t.d |-> FExp(t.d[idx])]]

tf_log(t) == [shape |-> t.shape, d |-> [idx \in DOMAIN t.d |-> FLog(t.d[idx])]]

tf_neg(t) == [shape |-> t.shape, d |-> [idx \in DOMAIN t.d |-> FNeg(t.d[idx])]]

tf_subtract(a, b) == [shape |-> a.shape, d |-> [idx \in DOMAIN a.d |-> FSub(a.d[idx], b.d[idx])]]

tf_multiply(a, b) == [shape |-> a.shape, d |-> [idx \in DOMAIN a.d |-> FMul(a.d[idx], b.d[idx])]]

RemoveAt(s, i) == SubSeq(s, 1, i - 1) \o SubSeq(s, i + 1, Len(s))

InsertAt(s, i, x) == SubSeq(s, 1, i - 1) \o <<x>> \o SubSeq(s, i, Len(s))

RECURSIVE FSum(_, _)
FSum(f, n) == IF n = 0 THEN Fin(Zero) ELSE FAdd(FSum(f, n - 1), f[n])

\* tf.tensordot(a, b, axes=([axA], [axB])): contracts axis axA of a with axis
\* axB of b; the result has the free axes of a followed by those of b
tensordot(a, b, axA, axB) ==
    IF axA >= Rank(a) \/ axB >= Rank(b) THEN Err("axis out of range")
    ELSE IF a.shape[axA + 1] # b.shape[axB + 1] THEN Err("shape mismatch")
    ELSE LET n  == a.shape[axA + 1]
             fa == Rank(a) - 1
             sh == RemoveAt(a.shape, axA + 1) \o RemoveAt(b.shape, axB + 1)
         IN  Ok([shape |-> sh,
                 d |-> [idx \in Indices(sh) |->
                          FSum([t \in 1..n |->
                                  FMul(a.d[InsertAt(SubSeq(idx, 1, fa), axA + 1, t)],
                                       b.d[InsertAt(SubSeq(idx, fa + 1, Len(idx)), axB + 1, t)])],
                               n)]])

\* SliceRows that keeps the zeroth row (m[0:n-from, :])
SliceRows_keepZeroth(m, from) ==
    LET sh == <<m.shape[1] - from, m.shape[2]>>
    IN  [shape |-> sh, d |-> [idx \in Indices(sh) |-> m.d[idx]]]

\* m[from:, :] of a matrix (from counted from 0)
SliceRows(m, from) ==
    LET sh == <<m.shape[1] - from, m.shape[2]>>
    IN  [shape |-> sh, d |-> [idx \in Indices(sh) |-> m.d[<<idx[1] + from, idx[2]>>]]]

\* tf.concat([a, b], axis=1) of two matrices
concat(a, b) ==
    IF Rank(a) # 2 \/ Rank(b) # 2 THEN Err("rank mismatch")
    ELSE IF a.shape[1] # b.shape[1] THEN Err("shape mismatch")
    ELSE LET sh == <<a.shape[1], a.shape[2] + b.shape[2]>>
         IN  Ok([shape |-> sh,
                 d |-> [idx \in Indices(sh) |->
                          IF idx[2] <= a.shape[2] THEN a.d[idx]
                          ELSE b.d[<<idx[1], idx[2] - a.shape[2]>>]]])

\* tf.debugging.check_numerics: raises when an entry is NaN or +/-infinity
check_numerics(t) ==
    IF \E idx \in DOMAIN t.d : ~IsFinite(t.d[idx])
    THEN Err("input tensor checking error")
    ELSE Ok(t)

clip_value_min == -50

clip_value_max == 50

\* tf.clip_by_value on one entry: min(max(x, lo), hi); NaN stays NaN
FClip(x) ==
    IF x.k = "nan" THEN NaN
    ELSE IF x.k = "inf" THEN (IF ConstOf(x.v) > 0 THEN Num(clip_value_max) ELSE Num(clip_value_min))
    ELSE IF Lo(x.v) > clip_value_max THEN Num(clip_value_max)
    ELSE IF Hi(x.v) < clip_value_min THEN Num(clip_value_min)
    ELSE x

clip_by_value(t) == [shape |-> t.shape, d |-> [idx \in DOMAIN t.d |-> FClip(t.d[idx])]]

(***************************************************************************)
(* kl_divergence_loss(m_b, q_w) and the two functions it closes over.      *)
(***************************************************************************)
\* reconstruct_alpha that clips before it checks
reconstruct_alpha_clipFirst(alpha, m_b, q_w) ==
    LET clipped_alpha == clip_by_value(alpha)
        checked_alpha == check_numerics(clipped_alpha)
    IN  IF checked_alpha.err # "" THEN checked_alpha
        ELSE
        LET dot1 == tensordot(checked_alpha.val, SliceRows(m_b, 1), 1, 0)
        IN  IF dot1.err # "" THEN dot1
            ELSE
            LET dot2 == tensordot(tf_exp(dot1.val), q_w, 1, 1)
            IN  IF dot2.err # "" THEN dot2
                ELSE concat(tf_neg(tf_log(dot2.val)), alpha)

reconstruct_alpha(alpha, m_b, q_w) ==
    LET checked_alpha == check_numerics(alpha)
    IN  IF checked_alpha.err # "" THEN checked_alpha
        ELSE
        LET clipped_alpha == clip_by_value(checked_alpha.val)
            dot1 == tensordot(clipped_alpha, SliceRows(m_b, 1), 1, 0)
        IN  IF dot1.err # "" THEN dot1
            ELSE
            LET tmp  == tf_exp(dot1.val)
                dot2 == tensordot(tmp, q_w, 1, 1)
            IN  IF dot2.err # "" THEN dot2
                ELSE
                LET alpha_0 == tf_neg(tf_log(dot2.val))
                IN  concat(alpha_0, alpha)

kl_divergence(y_true, y_pred, m_b, q_w) ==
    LET alpha_true_recon == reconstruct_alpha(y_true, m_b, q_w)
    IN  IF alpha_true_recon.err # "" THEN alpha_true_recon
        ELSE
        LET alpha_pred_recon == reconstruct_alpha(y_pred, m_b, q_w)
        IN  IF alpha_pred_recon.err # "" THEN alpha_pred_recon
            ELSE
            LET diff == tf_subtract(alpha_true_recon.val, alpha_pred_recon.val)
                dot1 == tensordot(alpha_true_recon.val, m_b, 1, 0)
                dot2 == tensordot(diff, m_b, 1, 0)
            IN  IF dot1.err # "" THEN dot1
                ELSE IF dot2.err # "" THEN dot2
                ELSE
                LET t1 == tf_exp(dot1.val)
                    t2 == dot2.val
                    integrand == tf_multiply(t1, t2)
                IN  tensordot(integrand, q_w, 1, 1)

(***************************************************************************)
(* The error metrics of errorAnalysis.py work on numpy arrays.  An entry   *)
(* is an integer number of units, a unit being a tenth of the floor 1e-3   *)
(* of relDifferenceScalar; a quotient is a reduced fraction, +/-infinity   *)
(* (n holds the sign) or NaN, as numpy's division returns them (a division *)
(* by zero only warns).                                                    *)
(***************************************************************************)
\* 1e-3, in units
Floor == 10

\* 1, in units
UnitsPerOne == 1000 * Floor

Abs(x) == IF x < 0 THEN -x ELSE x

Maximum(x, y) == IF x >= y THEN x ELSE y

RECURSIVE GCD(_, _)
GCD(a, b) == IF b = 0 THEN a ELSE GCD(b, a % b)

QNaN == [k |-> "nan", n |-> 0, d |-> 0]

QInf(sign) == [k |-> "inf", n |-> sign, d |-> 0]

QFin(n, d) == [k |-> "fin", n |-> n, d |-> d]

\* a / b of two numpy floats
np_divide(a, b) ==
    IF b = 0 THEN (IF a = 0 THEN QNaN ELSE IF a > 0 THEN QInf(1) ELSE QInf(-1))
    ELSE LET g == GCD(Abs(a), Abs(b))
             sg == IF b < 0 THEN -1 ELSE 1
         IN  QFin(sg * (a \div g), sg * (b \div g))

\* a == b of two numpy floats: NaN equals nothing, itself included
np_equal(a, b) == a.k # "nan" /\ b.k # "nan" /\ a = b

\* relDifferenceScalar whose numerator is |x1 + x2|
relDifferenceScalar_plus(x1, x2, maxMode) ==
    IF maxMode
    THEN Ok([s \in 1..Len(x1) |->
               np_divide(Abs(x1[s] + x2[s]), Maximum(Maximum(Abs(x1[s]), Abs(x2[s])), Floor))])
    ELSE Ok([s \in 1..Len(x1) |-> np_divide(Abs(x1[s] + x2[s]), Abs(x1[s]))])

\* relDifferenceScalar without the floor 1e-3 in the denominator
relDifferenceScalar_noFloor(x1, x2, maxMode) ==
    IF maxMode
    THEN Ok([s \in 1..Len(x1) |->
               np_divide(Abs(x1[s] - x2[s]), Maximum(Abs(x1[s]), Abs(x2[s])))])
    ELSE Ok([s \in 1..Len(x1) |-> np_divide(Abs(x1[s] - x2[s]), Abs(x1[s]))])

\* x1, x2 of dimension ns; entry by entry
relDifferenceScalar(x1, x2, maxMode) ==
    IF maxMode
    THEN Ok([s \in 1..Len(x1) |->
               np_divide(Abs(x1[s] - x2[s]), Maximum(Maximum(Abs(x1[s]), Abs(x2[s])), Floor))])
    ELSE Ok([s \in 1..Len(x1) |-> np_divide(Abs(x1[s] - x2[s]), Abs(x1[s]))])

RECURSIVE SumSeq(_)
SumSeq(q) == IF q = <<>> THEN 0 ELSE Head(q) + SumSeq(Tail(q))

\* np.linalg.norm(x, axis=1, ord=1) of an (ns x N) array: one value per row
norm_axis1(x) == [s \in 1..Len(x) |-> SumSeq([i \in 1..Len(x[s]) |-> Abs(x[s][i])])]

\* np.linalg.norm(x, axis=0, ord=1) of an (ns x N) array: one value per column
norm_axis0(x) == [i \in 1..Len(x[1]) |-> SumSeq([s \in 1..Len(x) |-> Abs(x[s][i])])]

\* x - y of two arrays of one shape
np_subtract(x, y) == [s \in 1..Len(x) |-> [i \in 1..Len(x[s]) |-> x[s][i] - y[s][i]]]

\* a / b of two one-dimensional arrays, with numpy's broadcasting: equal lengths
\* divide entry by entry, a length of 1 is stretched, anything else raises
np_divide_broadcast(a, b) ==
    IF Len(a) = Len(b) THEN Ok([s \in 1..Len(a) |-> np_divide(a[s], b[s])])
    ELSE IF Len(b) = 1 THEN Ok([s \in 1..Len(a) |-> np_divide(a[s], b[1])])
    ELSE IF Len(a) = 1 THEN Ok([s \in 1..Len(b) |-> np_divide(a[1], b[s])])
    ELSE Err("operands could not be broadcast together")

\* relDifference that normalizes by the norm of x1 alone in max mode
relDifference_noMax(x1, x2, maxMode) ==
    LET absDiff == norm_axis1(np_subtract(x1, x2))
    IN  IF maxMode THEN np_divide_broadcast(absDiff, norm_axis1(x1))
        ELSE np_divide_broadcast(absDiff, norm_axis0(x1))

\* x1, x2 of dimension ns x N
relDifference(x1, x2, maxMode) ==
    LET absDiff == norm_axis1(np_subtract(x1, x2))
        normalization ==
            IF maxMode = TRUE
            THEN [s \in 1..Len(x1) |-> Maximum(norm_axis1(x1)[s], norm_axis1(x2)[s])]
            ELSE norm_axis0(x1)
    IN  np_divide_broadcast(absDiff, normalization)

(***************************************************************************)
(* load_data reads a delimited file with pandas.  A file is its data rows, *)
(* each a sequence of cells; column c of the file (from 0) is position     *)
(* c + 1 of a row.                                                         *)
(***************************************************************************)
u_cols(input_dim) == [i \in 1..input_dim |-> i]

\* alpha_cols that starts one column early
alpha_cols_early(input_dim) == [i \in 1..input_dim |-> input_dim + i - 1]

alpha_cols(input_dim) == [i \in 1..input_dim |-> input_dim + i]

h_col(input_dim) == <<2 * input_dim + 1>>

NumCols(file) == Len(file[1])

\* pd.read_csv(filename, usecols=cols).to_numpy(): the chosen columns, in the
\* file's order; a column the file does not have raises
read_csv(file, cols) ==
    IF \E j \in 1..Len(cols) : cols[j] >= NumCols(file)
    THEN Err("usecols out of bounds")
    ELSE LET used == {cols[j] : j \in 1..Len(cols)}
             keep == SelectSeq([c \in 1..NumCols(file) |-> c - 1], LAMBDA c : c \in used)
         IN  Ok([r \in 1..Len(file) |-> [j \in 1..Len(keep) |-> file[r][keep[j] + 1]]])

load_data(file, input_dim, selected_cols) ==
    LET u == read_csv(file, u_cols(input_dim))
        alpha == read_csv(file, alpha_cols(input_dim))
        h == read_csv(file, h_col(input_dim))
        d1 == IF selected_cols[1] THEN <<u.val>> ELSE <<>>
        d2 == IF selected_cols[2] THEN d1 \o <<alpha.val>> ELSE d1
        d3 == IF selected_cols[3] THEN d2 \o <<h.val>> ELSE d2
    IN  IF selected_cols[1] /\ u.err # "" THEN u
        ELSE IF selected_cols[2] /\ alpha.err # "" THEN alpha
        ELSE IF selected_cols[3] /\ h.err # "" THEN h
        ELSE Ok(d3)

(***************************************************************************)
(* Arguments of the calls.                                                 *)
(***************************************************************************)
\* quadrature rules (nodes mu, weights w) on the reference interval
Quadratures ==
    { [mu |-> <<-1, 1>>, w |-> <<1, 1>>],
      [mu |-> <<-1, 0, 1>>, w |-> <<1, 4, 1>>] }

\* the monomial basis of degree N at the nodes: row i holds mu^i, i = 0..N
MonomialBasis(mu, N) ==
    [shape |-> <<N + 1, Len(mu)>>,
     d |-> [idx \in Indices(<<N + 1, Len(mu)>>) |->
              IF idx[1] = 1 THEN Num(1) ELSE Num(mu[idx[2]] ^ (idx[1] - 1))]]

\* the quadrature weights as a row matrix (1 x nq) or as a vector (nq,)
Weights(w, rank) ==
    IF rank = 2
    THEN [shape |-> <<1, Len(w)>>, d |-> [idx \in Indices(<<1, Len(w)>>) |-> Num(w[idx[2]])]]
    ELSE [shape |-> <<Len(w)>>, d |-> [idx \in Indices(<<Len(w)>>) |-> Num(w[idx[1]])]]

BaseVals == {Num(0), Num(1)}

SpecialVals == {NaN, PosInf, NegInf, Num(-60), Num(50), Num(60), Num(800)}

PredVals == {Num(0), Num(2), Num(60), PosInf, NaN}

ConstBatch(ns, N, b) == [shape |-> <<ns, N>>, d |-> [idx \in Indices(<<ns, N>>) |-> b]]

\* multiplier batches (ns x N): b everywhere but in row i, which holds c and,
\* in column j (if j > 0), s
Batches(ns, N) ==
    { [shape |-> <<ns, N>>,
       d |-> [idx \in Indices(<<ns, N>>) |->
                IF idx[1] # t[2] THEN t[1] ELSE IF idx[2] = t[4] THEN t[5] ELSE t[3]]] :
      t \in BaseVals \X (1..ns) \X BaseVals \X (0..N) \X SpecialVals }

\* entries of the vectors relDifferenceScalar is applied to, in units: two
\* of magnitude >= 1, three of magnitude < 1e-3
ScalarVals == {-UnitsPerOne, -5, 0, 8, 2 * UnitsPerOne}

Vectors(ns) == [1..ns -> ScalarVals]

MatBaseVals == {0, 1}

MatSpecialVals == {-3, 2}

\* arrays (ns x N): b everywhere but in row i, which holds c and, in column j
\* (if j > 0), s
Matrices(ns, N) ==
    { [s \in 1..ns |-> [i \in 1..N |->
          IF s # t[2] THEN t[1] ELSE IF i = t[4] THEN t[5] ELSE t[3]]] :
      t \in MatBaseVals \X (1..ns) \X MatBaseVals \X (0..N) \X MatSpecialVals }

\* files of nrows data rows and ncols columns; the cell of row r and column c
\* (from 0) holds 100 * seed + 10 * r + c
File(nrows, ncols, seed) == [r \in 1..nrows |-> [c \in 1..ncols |-> 100 * seed + 10 * r + c - 1]]

Files(input_dim) ==
    { File(nrows, ncols, seed) :
        nrows \in 1..MaxRows,
        ncols \in (2 * input_dim + 1)..(2 * input_dim + 3),
        seed \in {0, 1} }

NoCall == [err |-> "", val |-> NoTensor]

(***************************************************************************)
(* configModel.py: initNeuralClosure.                                      *)
(*                                                                         *)
(* The function binds the local neuralClosureModel in the branch of the    *)
(* chosen model and returns it.  A statement `ValueError("...")` builds an *)
(* exception object and drops it: nothing is raised and control goes on to *)
(* the next statement.  A branch that binds nothing leaves the local       *)
(* unbound, and `return neuralClosureModel` then raises UnboundLocalError. *)
(***************************************************************************)
\* number of network classes neuralMK1..neuralMK7
NumModels == 7

\* the local neuralClosureModel before any assignment
Unbound == [class |-> 0, maxDegree_N |-> 0, folder_name |-> ""]

\* neuralMK<k>(maxDegree_N, folderName): the instance of class k
neuralMK(k, maxDegree_N, folderName) ==
    [class |-> k, maxDegree_N |-> maxDegree_N, folder_name |-> folderName]

\* the exception object built by the expression ValueError(msg)
ValueError(msg) == [type |-> "ValueError", msg |-> msg]

\* the outcomes of a call: the model returned with the network classes the
\* call instantiated, or the exception that ended it
Returned(m) == [err |-> "", val |-> m, built |-> {m.class}]

Raised(e) == [err |-> e, val |-> Unbound, built |-> {}]

\* the value of the local neuralClosureModel when line 73 is reached
neuralClosureModel(modelNumber, maxDegree_N, folderName) ==
    IF maxDegree_N < 0
    THEN LET dropped == ValueError("Negative number of basis functions not possible")
         IN  Unbound
    ELSE IF modelNumber = 1 THEN neuralMK(1, maxDegree_N, folderName)
    ELSE IF modelNumber = 2
    THEN LET dropped == IF maxDegree_N > 0
                        THEN ValueError("Model MK1 is constructed only for maximum degree 0 of the spherical harmonics")
                        ELSE Unbound
         IN  neuralMK(2, maxDegree_N, folderName)
    ELSE IF modelNumber \in 3..NumModels
    THEN LET dropped == IF maxDegree_N > 1
                        THEN ValueError("Model is constructed only for maximum degree 1")
                        ELSE Unbound
         IN  neuralMK(modelNumber, maxDegree_N, folderName)
    ELSE LET dropped == ValueError("No network fits your preferences!")
         IN  Unbound

initNeuralClosure(modelNumber, maxDegree_N, folderName) ==
    LET m == neuralClosureModel(modelNumber, maxDegree_N, folderName)
    IN  IF m = Unbound THEN Raised("UnboundLocalError") ELSE Returned(m)

\* the arguments the calls draw from
ModelNumbers == (-1)..MaxModelNumber

Degrees == (-2)..MaxDegree

FolderNames == {"testFolder", "models/mk11"}


(***************************************************************************)
(* utils.py: finiteDiff.  The arrays are sequences of integers; Python     *)
(* indexes them from 0, and a negative index counts from the end.          *)
(***************************************************************************)
\* the position (from 1) of the element a[i] of an array of n elements
PyIndex(i, n) == IF i < 0 THEN n + i + 1 ELSE i + 1

\* a[i], for an index i the array has
PyItem(a, i) == a[PyIndex(i, Len(a))]

\* the outcomes of a call: the array returned, or the exception raised
GradReturned(grad) == [err |-> "", val |-> grad]

GradRaised(e) == [err |-> e, val |-> <<>>]

\* grad after the loop of lines 31-32 has run for i, i + 1, .., n - 2
RECURSIVE finiteDiff_loop(_, _, _, _)
finiteDiff_loop(x, y, grad, i) ==
    IF i >= Len(x) - 1 THEN grad
    ELSE finiteDiff_loop(x, y,
            [grad EXCEPT ![i + 2] = np_divide(PyItem(y, i) - PyItem(y, i - 1),
                                              PyItem(x, i) - PyItem(x, i - 1))],
            i + 1)

finiteDiff(x, y) ==
    LET zeros == [k \in 1..Len(x) |-> np_divide(0, 1)]
    IN  IF Len(x) < 2 \/ Len(y) < 2 THEN GradRaised("IndexError")
        ELSE LET grad == [zeros EXCEPT ![1] = np_divide(PyItem(y, 1) - PyItem(y, 0),
                                                        PyItem(x, 1) - PyItem(x, 0))]
             IN  GradReturned(finiteDiff_loop(x, y, grad, 0))

\* the arrays the calls draw from
XVals == {0, 1, 3}

YVals == {0, 1, 4}


(***************************************************************************)
(* utils.py: writeConfigFile.                                              *)
(*                                                                         *)
(* A file name is kept in its parts: the folder, the stem ("runScript_" or *)
(* "config_"), the digits between the stem and the closing "_", and the    *)
(* extension.  The disk is the set of folders and the content of every     *)
(* file.  git.Repo(search_parent_directories=True) raises                  *)
(* InvalidGitRepositoryError when the working directory is in no           *)
(* repository; that depends on where the program is started, so every call *)
(* draws it.                                                               *)
(***************************************************************************)
\* str(n), as the sequence of its decimal digits
RECURSIVE Str(_)
Str(n) == IF n < 10 THEN <<n>> ELSE Str(n \div 10) \o <<n % 10>>

\* s.zfill(width)
zfill(s, width) ==
    IF Len(s) >= width THEN s ELSE [i \in 1..(width - Len(s)) |-> 0] \o s

\* folder_name + '/' + stem + digits + '_'
FileName(folder_name, stem, digits) ==
    [dir |-> folder_name, stem |-> stem, digits |-> digits, ext |-> ""]

\* name + ext
WithExt(name, ext) == [name EXCEPT !.ext = ext]

EmptyDisk == [dirs |-> {}, files |-> <<>>]

make_directory(d, path_to_directory) ==
    IF path_to_directory \in d.dirs THEN d
    ELSE [d EXCEPT !.dirs = @ \cup {path_to_directory}]

isfile(d, path) == path \in DOMAIN d.files

\* open(path, "w"), write(content), close(): a file that exists is replaced
write_file(d, path, content) ==
    [d EXCEPT !.files = [q \in (DOMAIN @) \cup {path} |->
                            IF q = path THEN content ELSE @[q]]]

\* the loops of lines 229-231 and 268-270, entered with count and name
RECURSIVE name_search(_, _, _, _)
name_search(d, ext, count, name) ==
    IF isfile(d, WithExt(name, ext))
    THEN name_search(d, ext, count + 1,
                     FileName(name.dir, name.stem, zfill(Str(count + 1), 3)))
    ELSE name

\* the text of the run script, which forces loadModel to 1
runScript(options) == [model |-> options.model, loadModel |-> 1]

\* the rows of the config csv
config(sha, options) ==
    [git_version |-> sha, model |-> options.model, loadModel |-> options.loadmodel]

\* no repository found
NoRepo == "none"

NoPath == FileName("", "", <<>>)

\* the disk after the call and the call's outcome
writeConfigFile(d, options, neural_closure_model, sha) ==
    LET folder_name == neural_closure_model.folder_name
        d1 == make_directory(d, folder_name)
        rsFile == WithExt(name_search(d1, ".sh", 0,
                                      FileName(folder_name, "runScript_", <<0, 0, 1>>)),
                          ".sh")
        d2 == write_file(d1, rsFile, runScript(options))
    IN  IF sha = NoRepo
        THEN [disk |-> d2,
              out |-> [err |-> "InvalidGitRepositoryError", val |-> FALSE,
                       rsFile |-> rsFile, cfg_file |-> NoPath]]
        ELSE LET cfg_file == WithExt(name_search(d2, ".csv", 0,
                                                 FileName(folder_name, "config_", <<0, 0, 1>>)),
                                     ".csv")
                 d3 == write_file(d2, cfg_file, config(sha, options))
             IN  [disk |-> d3,
                  out |-> [err |-> "", val |-> TRUE,
                           rsFile |-> rsFile, cfg_file |-> cfg_file]]

\* the arguments the calls draw from
OptionSets == [model : {1, 2}, loadmodel : {0}]

Shas == {NoRepo, "4f2a9c1"}


Init ==
    /\ pc = "idle"
    /\ op = "none"
    /\ closure = [built |-> FALSE, m_b |-> NoTensor, q_w |-> NoTensor]
    /\ args = <<>>
    /\ ret = NoCall
    /\ disk = EmptyDisk
    /\ calls = [f \in FolderNames |-> 0]

\* loss = kl_divergence_loss(m_b, q_w)
KlDivergenceLoss ==
    /\ pc = "idle"
    /\ \E q \in Quadratures, N \in 1..MaxN, rank \in {1, 2} :
          closure' = [built |-> TRUE, m_b |-> MonomialBasis(q.mu, N), q_w |-> Weights(q.w, rank)]
    /\ UNCHANGED <<pc, op, args, ret, disk, calls>>

ReconstructAlpha ==
    /\ pc = "idle"
    /\ closure.built
    /\ \E ns \in 1..MaxNs :
       \E alpha \in Batches(ns, closure.m_b.shape[1] - 1) :
          /\ args' = <<alpha>>
          /\ ret' = reconstruct_alpha(alpha, closure.m_b, closure.q_w)
    /\ op' = "reconstruct_alpha"
    /\ pc' = "returned"
    /\ UNCHANGED <<closure, disk, calls>>

KlDivergence ==
    /\ pc = "idle"
    /\ closure.built
    /\ \E ns \in 1..MaxNs :
       LET N == closure.m_b.shape[1] - 1 IN
       \E y_true \in Batches(ns, N) :
       \E y_pred \in {y_true} \cup {ConstBatch(ns, N, p) : p \in PredVals} :
          /\ args' = <<y_true, y_pred>>
          /\ ret' = kl_divergence(y_true, y_pred, closure.m_b, closure.q_w)
    /\ op' = "kl_divergence"
    /\ pc' = "returned"
    /\ UNCHANGED <<closure, disk, calls>>

\* the caller takes the result
Return ==
    /\ pc = "returned"
    /\ pc' = "idle"
    /\ op' = "none"
    /\ args' = <<>>
    /\ ret' = NoCall
    /\ UNCHANGED <<closure, disk, calls>>

RelDifferenceScalar ==
    /\ pc = "idle"
    /\ \E ns \in 1..MaxSamples, maxMode \in BOOLEAN :
       \E x1 \in Vectors(ns), x2 \in Vectors(ns) :
          /\ args' = <<x1, x2, maxMode>>
          /\ ret' = relDifferenceScalar(x1, x2, maxMode)
    /\ op' = "relDifferenceScalar"
    /\ pc' = "returned"
    /\ UNCHANGED <<closure, disk, calls>>

RelDifference ==
    /\ pc = "idle"
    /\ \E ns \in 1..MaxSamples, N \in 1..MaxFeatures, maxMode \in BOOLEAN :
       \E x1 \in Matrices(ns, N), x2 \in Matrices(ns, N) :
          /\ args' = <<x1, x2, maxMode>>
          /\ ret' = relDifference(x1, x2, maxMode)
    /\ op' = "relDifference"
    /\ pc' = "returned"
    /\ UNCHANGED <<closure, disk, calls>>

LoadData ==
    /\ pc = "idle"
    /\ \E input_dim \in 1..MaxInputDim, selected_cols \in [1..3 -> BOOLEAN] :
       \E file \in Files(input_dim) :
          /\ args' = <<file, input_dim, selected_cols>>
          /\ ret' = load_data(file, input_dim, selected_cols)
    /\ op' = "load_data"
    /\ pc' = "returned"
    /\ UNCHANGED <<closure, disk, calls>>

NextKL == KlDivergenceLoss \/ ReconstructAlpha \/ KlDivergence \/ Return

SpecKL == Init /\ [][NextKL]_vars

NextErr == RelDifferenceScalar \/ RelDifference \/ Return

SpecErr == Init /\ [][NextErr]_vars

NextLoad == LoadData \/ Return

SpecLoad == Init /\ [][NextLoad]_vars

\* neuralClosureModel = initNeuralClosure(modelNumber, maxDegree_N, folderName)
InitNeuralClosure ==
    /\ pc = "idle"
    /\ \E modelNumber \in ModelNumbers, maxDegree_N \in Degrees, folderName \in FolderNames :
          /\ args' = <<modelNumber, maxDegree_N, folderName>>
          /\ ret' = initNeuralClosure(modelNumber, maxDegree_N, folderName)
    /\ op' = "initNeuralClosure"
    /\ pc' = "returned"
    /\ UNCHANGED <<closure, disk, calls>>

NextInit == InitNeuralClosure \/ Return

SpecInit == Init /\ [][NextInit]_vars

\* grad = finiteDiff(x, y)
FiniteDiff ==
    /\ pc = "idle"
    /\ \E n \in 1..MaxPoints :
       \E x \in [1..n -> XVals], y \in [1..n -> YVals] :
          /\ args' = <<x, y>>
          /\ ret' = finiteDiff(x, y)
    /\ op' = "finiteDiff"
    /\ pc' = "returned"
    /\ UNCHANGED <<closure, disk, calls>>

NextDiff == FiniteDiff \/ Return

SpecDiff == Init /\ [][NextDiff]_vars

\* writeConfigFile(options, neural_closure_model)
WriteConfigFile ==
    /\ pc = "idle"
    /\ \E options \in OptionSets, folderName \in FolderNames, sha \in Shas :
          /\ calls[folderName] < MaxCalls
          /\ LET neural_closure_model == neuralMK(options.model, 0, folderName)
                 r == writeConfigFile(disk, options, neural_closure_model, sha)
             IN  /\ args' = <<options, neural_closure_model, sha>>
                 /\ ret' = r.out
                 /\ disk' = r.disk
          /\ calls' = [calls EXCEPT ![folderName] = @ + 1]
    /\ op' = "writeConfigFile"
    /\ pc' = "returned"
    /\ UNCHANGED closure

NextCfg == WriteConfigFile \/ Return

SpecCfg == Init /\ [][NextCfg]_vars

(***************************************************************************)
(* The quantities the statements about the loss are written in, computed   *)
(* from their formulas with explicit sums over the quadrature points k and *)
(* the basis rows i.                                                       *)
(***************************************************************************)
NumericsError == "input tensor checking error"

AllFinite(t) == \A idx \in DOMAIN t.d : IsFinite(t.d[idx])

Nq == closure.m_b.shape[2]

RowMatrixWeights == closure.built /\ closure.q_w.shape = <<1, Nq>>

VectorWeights == closure.built /\ closure.q_w.shape = <<Nq>>

WeightAt(k) == IF Rank(closure.q_w) = 2 THEN closure.q_w.d[<<1, k>>] ELSE closure.q_w.d[<<k>>]

\* sum_i t[s, i] * basis[i + off, k]  (i and the basis rows counted from 0)
RowDotBasis(t, s, k, off) ==
    FSum([i \in 1..t.shape[2] |-> FMul(t.d[<<s, i>>], closure.m_b.d[<<i + off, k>>])],
         t.shape[2])

\* sum_k w[k] * exp(sum_i full[s, i] * basis[i, k])
ZerothMoment(full, s) ==
    FSum([k \in 1..Nq |-> FMul(WeightAt(k), FExp(RowDotBasis(full, s, k, 0)))], Nq)

\* x = 1, that is x is 1 or s * exp(-log(s)) for a sum s
IsOne(x) ==
    /\ x.k = "fin"
    /\ \/ x.v = One
       \/ \E m \in DOMAIN x.v : \E mm \in DOMAIN m.e : \E sym \in BagToSet(mm.f) :
             x.v = Mul(sym, ExpE(Neg(LogSym(sym))))

\* an integer entry clipped to [-50, 50]
ClippedEntry(x) ==
    LET n == ConstOf(x.v)
    IN  Num(IF n > 50 THEN 50 ELSE IF n < -50 THEN -50 ELSE n)

\* -log(sum_k w[k] * exp(sum_i c_i * basis[i+1, k])), c the clipped row s of alpha
Alpha0(alpha, s) ==
    LET c == [shape |-> alpha.shape, d |-> [idx \in DOMAIN alpha.d |-> ClippedEntry(alpha.d[idx])]]
    IN  FNeg(FLog(FSum([k \in 1..Nq |-> FMul(WeightAt(k), FExp(RowDotBasis(c, s, k, 1)))], Nq)))

\* the full vectors [alpha_0, alpha] the loss is written in
Full(alpha) ==
    [shape |-> <<alpha.shape[1], alpha.shape[2] + 1>>,
     d |-> [idx \in Indices(<<alpha.shape[1], alpha.shape[2] + 1>>) |->
              IF idx[2] = 1 THEN Alpha0(alpha, idx[1]) ELSE alpha.d[<<idx[1], idx[2] - 1>>]]]

\* sum_k w[k] * exp(true_full . basis[:,k]) * ((true_full - pred_full) . basis[:,k])
LossOfSample(y_true, y_pred, s) ==
    LET tf == Full(y_true)
        df == tf_subtract(Full(y_true), Full(y_pred))
    IN  FSum([k \in 1..Nq |->
                FMul(WeightAt(k), FMul(FExp(RowDotBasis(tf, s, k, 0)), RowDotBasis(df, s, k, 0)))],
             Nq)

(***************************************************************************)
(* C1: reconstruct_alpha raises the numerics error whenever an entry of    *)
(* its argument is NaN or +/-infinity and returns no completed vector (an  *)
(* infinite entry is not clipped to +/-50 first); kl_divergence raises it  *)
(* for such an entry of y_true, and for one of y_pred once y_true has been *)
(* completed.                                                              *)
(***************************************************************************)
C1_NonFiniteRaises ==
    /\ (op = "reconstruct_alpha" /\ ~AllFinite(args[1]))
          => (ret.err = NumericsError /\ ret.val = NoTensor)
    /\ (op = "kl_divergence" /\ ~AllFinite(args[1]))
          => (ret.err = NumericsError /\ ret.val = NoTensor)
    /\ (op = "kl_divergence" /\ ~AllFinite(args[2]))
          => /\ ret.err # "" /\ ret.val = NoTensor
             /\ reconstruct_alpha(args[1], closure.m_b, closure.q_w).err = ""
                   => ret.err = NumericsError

C1_Witness ==
    /\ op = "reconstruct_alpha"
    /\ RowMatrixWeights
    /\ \E idx \in DOMAIN args[1].d : args[1].d[idx] = PosInf
    /\ ret.err = NumericsError

(***************************************************************************)
(* C2: for every finite reduced batch, every row of the vector returned by *)
(* reconstruct_alpha has zeroth moment 1.                                  *)
(***************************************************************************)
C2_Normalized ==
    (op = "reconstruct_alpha" /\ RowMatrixWeights /\ AllFinite(args[1]))
       => /\ ret.err = ""
          /\ \A s \in 1..args[1].shape[1] : IsOne(ZerothMoment(ret.val, s))

\* the rows of the argument whose entries all lie in [-50, 50] are normalized
NormalizedInsideClip ==
    (op = "reconstruct_alpha" /\ RowMatrixWeights /\ AllFinite(args[1]))
       => \A s \in 1..args[1].shape[1] :
             (\A i \in 1..args[1].shape[2] :
                 ClippedEntry(args[1].d[<<s, i>>]) = args[1].d[<<s, i>>])
                => IsOne(ZerothMoment(ret.val, s))

(***************************************************************************)
(* C3: kl_divergence(y, y) is 0 in every row, for every finite batch y.    *)
(***************************************************************************)
C3_SelfDivergenceZero ==
    (op = "kl_divergence" /\ RowMatrixWeights /\ AllFinite(args[1]) /\ args[2] = args[1])
       => /\ ret.err = ""
          /\ \A idx \in DOMAIN ret.val.d : ret.val.d[idx] = Num(0)

C5_LossPerSample_VectorWeights ==
    (op = "kl_divergence" /\ VectorWeights /\ AllFinite(args[1]) /\ AllFinite(args[2]))
       => /\ ret.err = ""
          /\ Cardinality(DOMAIN ret.val.d) = args[1].shape[1]
          /\ \A idx \in DOMAIN ret.val.d :
                ret.val.d[idx] = LossOfSample(args[1], args[2], idx[1])

\* the same with the weights given as a row matrix (1 x nq)
LossPerSample_RowMatrixWeights ==
    (op = "kl_divergence" /\ RowMatrixWeights /\ AllFinite(args[1]) /\ AllFinite(args[2]))
       => /\ ret.err = ""
          /\ ret.val.shape = <<args[1].shape[1], 1>>
          /\ \A idx \in DOMAIN ret.val.d :
                ret.val.d[idx] = LossOfSample(args[1], args[2], idx[1])

(***************************************************************************)
(* C6: relDifferenceScalar(x, x, maxMode=True) is 0 in every entry, also   *)
(* where x is 0 or of magnitude below 1e-3.                                *)
(***************************************************************************)
C6_SelfDifferenceZero ==
    (op = "relDifferenceScalar" /\ args[3] /\ args[1] = args[2])
       => /\ ret.err = ""
          /\ Len(ret.val) = Len(args[1])
          /\ \A s \in 1..Len(args[1]) : np_equal(ret.val[s], QFin(0, 1))

C6_Witness ==
    /\ op = "relDifferenceScalar"
    /\ args[3]
    /\ args[1] = args[2]
    /\ \E s \in 1..Len(args[1]) : args[1][s] = 0
    /\ \E s \in 1..Len(args[1]) : args[1][s] # 0 /\ Abs(args[1][s]) < Floor
    /\ \A s \in 1..Len(args[1]) : ret.val[s] = QFin(0, 1)

\* row s of x holds only zeros
RowIsZero(x, s) == \A i \in 1..Len(x[s]) : x[s][i] = 0

(***************************************************************************)
(* C7: relDifference(x1, x2, True) == relDifference(x2, x1, True) entry by *)
(* entry, for all x1, x2 of one shape.                                     *)
(***************************************************************************)
C7_SymmetricAllPairs ==
    (op = "relDifference" /\ args[3])
       => LET swapped == relDifference(args[2], args[1], TRUE)
          IN  /\ ret.err = "" /\ swapped.err = ""
              /\ \A s \in 1..Len(args[1]) : np_equal(ret.val[s], swapped.val[s])

(***************************************************************************)
(* C7, amended: the two orders agree in every sample in which x1 or x2 has *)
(* a non-zero entry; in a sample whose rows of x1 and x2 are both all      *)
(* zeros both orders return NaN (0/0), which is not equal to itself.       *)
(***************************************************************************)
C7_SymmetricUnlessBothZero ==
    (op = "relDifference" /\ args[3])
       => LET swapped == relDifference(args[2], args[1], TRUE)
          IN  /\ ret.err = "" /\ swapped.err = ""
              /\ \A s \in 1..Len(args[1]) :
                    IF RowIsZero(args[1], s) /\ RowIsZero(args[2], s)
                    THEN ret.val[s] = QNaN /\ swapped.val[s] = QNaN
                    ELSE np_equal(ret.val[s], swapped.val[s])

C7_Witness ==
    /\ op = "relDifference"
    /\ args[3]
    /\ \E s \in 1..Len(args[1]) :
          RowIsZero(args[1], s) /\ RowIsZero(args[2], s) /\ ret.val[s] = QNaN
    /\ \E s \in 1..Len(args[1]) :
          /\ norm_axis1(args[1])[s] < norm_axis1(args[2])[s]
          /\ ret.val[s].k = "fin" /\ ret.val[s].n > 0

(***************************************************************************)
(* C8: in both normalization modes relDifference returns ns entries for    *)
(* arguments of shape (ns x N); in max mode entry s is the L1 norm of row  *)
(* s of x1 - x2 divided by the larger of the L1 norms of row s of x1 and   *)
(* of x2.                                                                  *)
(***************************************************************************)
C8_PerSampleBothModes ==
    (op = "relDifference")
       => /\ ret.err = ""
          /\ Len(ret.val) = Len(args[1])
          /\ args[3] =>
                \A s \in 1..Len(args[1]) :
                   ret.val[s] =
                      np_divide(SumSeq([i \in 1..Len(args[1][s]) |-> Abs(args[1][s][i] - args[2][s][i])]),
                                Maximum(SumSeq([i \in 1..Len(args[1][s]) |-> Abs(args[1][s][i])]),
                                        SumSeq([i \in 1..Len(args[2][s]) |-> Abs(args[2][s][i])])))

\* the max mode alone: ns entries, each as C8 states
PerSampleMaxMode ==
    (op = "relDifference" /\ args[3]) => C8_PerSampleBothModes

\* the largest of three numbers
Largest(a, b, c) == CHOOSE m \in {a, b, c} : m >= a /\ m >= b /\ m >= c

(***************************************************************************)
(* C9: relDifferenceScalar divides |x1 - x2| entry by entry by             *)
(* max(|x1|, |x2|, 1e-3) in max mode (by 1e-3 when both magnitudes are     *)
(* below it, by the larger magnitude when one of them is >= 1; the result  *)
(* is never negative) and by |x1| otherwise, where an entry with x1 = 0    *)
(* raises nothing: its quotient is infinite or NaN and the other entries   *)
(* are |x1 - x2| / |x1|.                                                   *)
(***************************************************************************)
C9_ScalarDenominator ==
    (op = "relDifferenceScalar")
       => /\ ret.err = ""
          /\ Len(ret.val) = Len(args[1])
          /\ \A s \in 1..Len(args[1]) :
                LET a == Abs(args[1][s])
                    b == Abs(args[2][s])
                    d == Abs(args[1][s] - args[2][s])
                IN  IF args[3]
                    THEN /\ ret.val[s] = np_divide(d, Largest(a, b, Floor))
                         /\ (a < Floor /\ b < Floor) => ret.val[s] = np_divide(d, Floor)
                         /\ (a >= UnitsPerOne \/ b >= UnitsPerOne)
                               => ret.val[s] = np_divide(d, IF a >= b THEN a ELSE b)
                         /\ ret.val[s].k = "fin" /\ ret.val[s].n >= 0 /\ ret.val[s].d > 0
                    ELSE /\ a = 0 => ret.val[s] = (IF d = 0 THEN QNaN ELSE QInf(1))
                         /\ a # 0 => ret.val[s] = np_divide(d, a) /\ ret.val[s].k = "fin"

C9_Witness ==
    /\ op = "relDifferenceScalar"
    /\ args[3]
    /\ \E s \in 1..Len(args[1]) :
          /\ args[1][s] = -5 /\ args[2][s] = 8
          /\ ret.val[s] = QFin(13, Floor)
    /\ \E s \in 1..Len(args[1]) :
          /\ Abs(args[1][s]) >= UnitsPerOne /\ args[2][s] = 0
          /\ ret.val[s] = QFin(1, 1)

\* the entries of a sequence
Range(q) == {q[j] : j \in 1..Len(q)}

\* the columns from..to (from 0) of a file, as an array
Columns(file, from, to) == [r \in 1..Len(file) |-> [j \in 1..(to - from + 1) |-> file[r][from + j]]]

(***************************************************************************)
(* C10: load_data reads u from the file's columns 1..N, alpha from columns *)
(* N+1..2N and h from column 2N+1 (pairwise disjoint, column 0 never       *)
(* read) and returns, in the order u, alpha, h, exactly the arrays whose   *)
(* flag in selected_cols is true: as many as there are true flags, three   *)
(* iff all flags are true.                                                 *)
(***************************************************************************)
C10_LoadData ==
    (op = "load_data" /\ NumCols(args[1]) >= 2 * args[2] + 2)
       => LET file == args[1]
              N == args[2]
              flags == args[3]
              u == Columns(file, 1, N)
              alpha == Columns(file, N + 1, 2 * N)
              h == Columns(file, 2 * N + 1, 2 * N + 1)
          IN  /\ ret.err = ""
              /\ ret.val = (IF flags[1] THEN <<u>> ELSE <<>>)
                           \o (IF flags[2] THEN <<alpha>> ELSE <<>>)
                           \o (IF flags[3] THEN <<h>> ELSE <<>>)
              /\ Len(ret.val) = Cardinality({j \in 1..3 : flags[j]})
              /\ Len(ret.val) = 3 <=> (flags[1] /\ flags[2] /\ flags[3])
              /\ Range(u_cols(N)) = 1..N
              /\ Range(alpha_cols(N)) = (N + 1)..(2 * N)
              /\ Range(h_col(N)) = {2 * N + 1}

C10_Witness ==
    /\ op = "load_data"
    /\ args[2] = 2
    /\ NumCols(args[1]) = 6
    /\ args[3] = <<TRUE, TRUE, TRUE>>
    /\ ret.err = ""
    /\ Len(ret.val) = 3
    /\ ret.val[2] = Columns(args[1], 3, 4)

\* the static parameters initNeuralClosure is meant to reject
InvalidParameters == args[2] < 0 \/ args[1] \notin 1..NumModels

\* the degrees above the supported maximum of the chosen model
DegreeAboveLimit ==
    \/ args[1] = 2 /\ args[2] > 0
    \/ args[1] \in 3..NumModels /\ args[2] > 1

(***************************************************************************)
(* C11: initNeuralClosure rejects invalid static parameters with a         *)
(* ValueError: when maxDegree_N < 0 or modelNumber is not one of 1..7 the  *)
(* call ends in a ValueError, instantiates no network class and returns no *)
(* model; for modelNumber k in 1..7 and maxDegree_N >= 0 it returns the    *)
(* instance of neuralMK<k> built from (maxDegree_N, folderName).           *)
(***************************************************************************)
C11_InvalidRaisesValueError ==
    op = "initNeuralClosure"
       => IF InvalidParameters
          THEN ret.err = "ValueError" /\ ret.built = {} /\ ret.val = Unbound
          ELSE ret.err = "" /\ ret.val = neuralMK(args[1], args[2], args[3])

\* what the code does with invalid parameters: the call ends in an
\* UnboundLocalError, without a network; valid ones return the instance
InvalidEndsUnbound ==
    op = "initNeuralClosure"
       => IF InvalidParameters
          THEN ret.err = "UnboundLocalError" /\ ret.built = {} /\ ret.val = Unbound
          ELSE ret.err = "" /\ ret.val = neuralMK(args[1], args[2], args[3])

(***************************************************************************)
(* C12: initNeuralClosure enforces the supported maximum degree of each    *)
(* model: for modelNumber 2 with maxDegree_N > 0 and for modelNumber 3..7  *)
(* with maxDegree_N > 1 the call raises ValueError, and the network is     *)
(* neither constructed nor returned.                                       *)
(***************************************************************************)
C12_DegreeLimitRaises ==
    (op = "initNeuralClosure" /\ DegreeAboveLimit)
       => ret.err = "ValueError" /\ ret.built = {} /\ ret.val = Unbound

\* what the code does above the limit: it builds and returns the network
DegreeLimitIgnored ==
    (op = "initNeuralClosure" /\ DegreeAboveLimit)
       => ret.err = "" /\ ret.built = {args[1]} /\ ret.val.maxDegree_N = args[2]

\* the difference quotient of the points k and j (from 1) of the arguments
Quotient(k, j) == np_divide(args[2][k] - args[2][j], args[1][k] - args[1][j])

(***************************************************************************)
(* C14: for arrays of n >= 2 points finiteDiff returns n entries: entry 0  *)
(* is the quotient of the points 1 and 0, and every entry k in 1..n-1 is   *)
(* the quotient of point k and its left neighbour k - 1; no entry is the   *)
(* quotient of the pair (last point, first point).  (Points are counted    *)
(* from 0 in this statement and from 1 in the formula.)                    *)
(***************************************************************************)
C14_LeftDifferenceQuotients ==
    (op = "finiteDiff" /\ Len(args[1]) >= 2)
       => /\ ret.err = ""
          /\ Len(ret.val) = Len(args[1])
          /\ ret.val[1] = Quotient(2, 1)
          /\ \A k \in 2..Len(args[1]) : ret.val[k] = Quotient(k, k - 1)

\* what the code computes: entry 1 is the quotient of the first and the last
\* point, and entry k >= 2 is the quotient of the points k - 1 and k - 2
ShiftedDifferenceQuotients ==
    (op = "finiteDiff" /\ Len(args[1]) >= 2)
       => LET n == Len(args[1])
          IN  /\ ret.err = ""
              /\ Len(ret.val) = n
              /\ ret.val[1] = Quotient(2, 1)
              /\ ret.val[2] = Quotient(1, n)
              /\ \A k \in 3..n : ret.val[k] = Quotient(k - 1, k - 2)

\* the file of a folder with the given stem, index k padded to 3 digits, and
\* extension
IndexedFile(folder_name, stem, k, ext) ==
    WithExt(FileName(folder_name, stem, zfill(Str(k), 3)), ext)

\* a step keeps every file of the disk, with its content
KeepsEveryFile ==
    \A q \in DOMAIN disk.files :
        q \in DOMAIN disk'.files /\ disk'.files[q] = disk.files[q]

\* the config files of a folder
ConfigFiles(folder_name) ==
    {q \in DOMAIN disk.files : q.dir = folder_name /\ q.stem = "config_"}

\* a call that returned wrote, as the k-th call on its folder, the run script
\* and the config of index k
WritesIndexOfCall ==
    (op = "writeConfigFile" /\ ret.err = "")
       => LET folder_name == args[2].folder_name
              k == calls[folder_name]
          IN  /\ ret.rsFile = IndexedFile(folder_name, "runScript_", k, ".sh")
              /\ ret.cfg_file = IndexedFile(folder_name, "config_", k, ".csv")
              /\ ret.rsFile.digits = ret.cfg_file.digits
              /\ isfile(disk, ret.rsFile) /\ disk.files[ret.rsFile] = runScript(args[1])
              /\ isfile(disk, ret.cfg_file)
              /\ disk.files[ret.cfg_file] = config(args[3], args[1])

(***************************************************************************)
(* C13: writeConfigFile never overwrites a file written earlier: every     *)
(* step keeps all files of the disk unchanged; and, the folders being      *)
(* empty at the start, the k-th call on a folder writes the run script     *)
(* runScript_<k>_.sh and the config config_<k>_.csv, k padded to 3 digits, *)
(* so that the two files of one call carry the same index.                 *)
(***************************************************************************)
C13_NoOverwrite_SameIndex == [][KeepsEveryFile]_vars /\ []WritesIndexOfCall

\* what holds of the code: no step changes or removes a file
NeverOverwrites == [][KeepsEveryFile]_vars

\* what holds of the code: the k-th call on a folder writes the run script of
\* index k; a call that returns writes the config whose index is the number
\* of calls on the folder that have returned, and the two indices are the
\* same when every call on the folder has returned
IndexPerFileKind ==
    op = "writeConfigFile"
       => LET folder_name == args[2].folder_name
              k == calls[folder_name]
              c == Cardinality(ConfigFiles(folder_name))
          IN  /\ ret.rsFile = IndexedFile(folder_name, "runScript_", k, ".sh")
              /\ disk.files[ret.rsFile] = runScript(args[1])
              /\ ret.err = ""
                   => /\ ret.cfg_file = IndexedFile(folder_name, "config_", c, ".csv")
                      /\ disk.files[ret.cfg_file] = config(args[3], args[1])
                      /\ c = k => ret.rsFile.digits = ret.cfg_file.digits
              /\ ret.err # "" => c < k
====
